---- MODULE Spec2Model ----
(***************************************************************************)
(* TrustDog escrow deal lifecycle: one deal, its proof spec, and the rows  *)
(* that hang off it (escrow_events, verification_schedules, payouts,       *)
(* refunds, reviews), driven by the HTTP handlers of the worker, the       *)
(* orchestrator callback and the cron handler.  Every handler is keyed by  *)
(* the deal id and touches only that deal's rows, so one deal is modelled. *)
(* Times are minutes.                                                      *)
(***************************************************************************)
EXTENDS Integers, Sequences, FiniteSets, Bags, TLC

Null == "null"

\* null / undefined in a numeric column or payload field
NoNum == 0 - 1

\* ------------------------------------------------------------------------
\* Bounds of the model
\* ------------------------------------------------------------------------
\* cap on the settlement and review rows (payouts, refunds, reviews) a
\* behaviour inserts for the deal, and on the transfers it sends
MaxRows == 2

\* cap on the Created escrow events (confirmed fundings) of the deal
MaxFundings == 1

\* cap on the verification_schedules rows of the deal
MaxSchedules == 2

\* instants at which handlers are observed to run: T0 and T0+25h
Instants == <<0, 1500>>

\* deadline_iso of the deal (request input of deal creation)
Deadlines == {120}

Users == {"adv", "cre"}
Advertiser == "adv"

\* overall scores and confidences carried by callback payloads
Scores == {0, 65, 85}
Confidences == {NoNum, 90}

\* ------------------------------------------------------------------------
\* State
\* ------------------------------------------------------------------------
VARIABLES
    deal,          \* the deals row
    proof_spec,    \* the proof_specs row of the deal
    identities,    \* payment destinations of advertiser and creator
    env,           \* worker configuration flags
    clock,         \* index into Instants of the current instant
    escrow_events, \* bag of escrow_events rows of the deal
    schedules,     \* verification_schedules rows of the deal, in insertion order
    payouts,       \* bag of payouts rows of the deal
    refunds,       \* bag of refunds rows of the deal
    reviews,       \* bag of reviews rows of the deal
    transfers,     \* transfers accepted by the payment backends, by direction
    normalized,    \* outcome of the callback normaliser on the last raw body
                   \* given to it on its own (a set: empty, or that outcome)
    other_deals,   \* the other deals of the table: how many are candidates
                   \* of the duration sweep, how many a sweep has checked
    deciding,      \* review decisions past the endpoint's checks whose
                   \* update has not run yet
    hitl_events,   \* hitl_events rows (the notification queue), in
                   \* insertion order
    hitl_time,     \* the time of the notification queue, in seconds
    cron_runs,     \* the cron runs in progress: where each one is in its
                   \* dispatch loop and the rows its query returned
    dispatches,    \* bag of the schedule rows (by index) the cron has sent
                   \* to the analysis service
    claims,        \* claim requests for reviews: past the Open check
                   \* ("checked") or answered with success ("done")
    durable_queue, \* the analysis server's DurableQueue object: jobs,
                   \* processing, the job in hand, position in processNext
    queue_files,   \* the queue directory: jobs.json and processing.json
    queue_jobs     \* jobs answered "processing" (counted, ids 1..accepted)
                   \* and jobs whose processing has ended

vars == <<deal, proof_spec, identities, env, clock, escrow_events, schedules,
          payouts, refunds, reviews, transfers, normalized, other_deals,
          deciding, hitl_events, hitl_time, cron_runs,
          dispatches, claims, durable_queue, queue_files, queue_jobs>>

now == Instants[clock]

BagCount(b) == BagCardinality(b)

\* rows of a bag satisfying a predicate, counted with multiplicity
RECURSIVE SumOver(_, _)
SumOver(S, b) ==
    IF S = {} THEN 0
    ELSE LET x == CHOOSE y \in S : TRUE
         IN  CopiesIn(x, b) + SumOver(S \ {x}, b)

Insert(b, row) == b (+) SetToBag({row})

\* no deal but the one followed
NoOtherDeals == [candidates |-> 0, checked |-> 0]

\* the DurableQueue of a server started on an empty queue directory
FreshQueue == [jobs |-> <<>>, processing |-> FALSE, cur |-> 0, pc |-> "idle"]

\* an empty queue directory: jobs.json holding no job, no processing.json
NoFiles == [jobs |-> <<>>, processing |-> {}]

\* no job accepted yet
NoJobs == [accepted |-> 0, ended |-> {}]

\* cron runs that may overlap
MaxRuns == 2

RunIds == 1..MaxRuns

\* a cron run that is not in progress
IdleRun == [pc |-> "idle", due |-> {}, cur |-> 0, t |-> 0, ok |-> FALSE]

NoRuns == [k \in RunIds |-> IdleRun]

\* deals table insert of POST / (deal creation)
InitDeal(deadline) ==
    [ status |-> "PendingAcceptance",
      advertiser_id |-> Advertiser,
      creator_id |-> Null,
      deadline_iso |-> deadline,
      posted_at |-> NoNum,
      post_url |-> Null,
      failure_reason |-> Null,
      verification_score |-> NoNum,
      orchestrator_result |-> NoNum,
      last_verification_at |-> NoNum ]

\* the deal just created, in a deployment with HITL and the orchestrator
\* enabled, both parties having connected a Solana wallet and neither a
\* Stripe connect account
Init ==
    /\ \E dl \in Deadlines : deal = InitDeal(dl)
    /\ proof_spec = [duration_hours |-> 24]
    /\ identities \in [Users -> [solana_wallet_address : {TRUE},
                                 stripe_connect_account_id : {FALSE}]]
    /\ env \in [HITL_ENABLED : {TRUE}, ORCHESTRATOR_ENABLED : {TRUE}]
    /\ clock = 1
    /\ escrow_events = EmptyBag
    /\ schedules = <<>>
    /\ payouts = EmptyBag
    /\ refunds = EmptyBag
    /\ reviews = EmptyBag
    /\ transfers = [payout |-> 0, refund |-> 0]
    /\ normalized = {}
    /\ deciding = {}
    /\ hitl_events = <<>>
    /\ hitl_time = 0
    /\ cron_runs = NoRuns
    /\ dispatches = EmptyBag
    /\ claims = {}
    /\ durable_queue = FreshQueue
    /\ queue_files = NoFiles
    /\ queue_jobs = NoJobs
    /\ other_deals = NoOtherDeals

\* ------------------------------------------------------------------------
\* Row lookups
\* ------------------------------------------------------------------------
Rows(b) == BagToSet(b)

CountWhere(b, P(_)) == SumOver({r \in Rows(b) : P(r)}, b)

\* the caps of the model, on the tables a handler leaves behind
Within(po, rf, rv, tr) ==
    /\ BagCount(po) + BagCount(rf) + BagCount(rv) <= MaxRows
    /\ tr.payout + tr.refund <= MaxRows

RoomIn(ev) == CountWhere(ev, LAMBDA r : r.event_type = "Created") < MaxFundings

\* supabase .single(): the row when exactly one row matches, else no data
\* (the result is the set holding that row, or the empty set)
Single(b, P(_)) ==
    IF CountWhere(b, P) = 1 THEN {r \in Rows(b) : P(r)} ELSE {}

TheRow(S) == CHOOSE r \in S : TRUE

\* escrow_events .eq('event_type', t).single(), then payment_method || 'stripe'
EventOfType(t) == Single(escrow_events, LAMBDA r : r.event_type = t)

PaymentMethodOf(ev) ==
    IF ev = {} THEN "stripe"
    ELSE IF TheRow(ev).payment_method = Null THEN "stripe"
    ELSE TheRow(ev).payment_method

\* a Payout / Refund row that is not failed
NonFailed(r) == r.status # "failed"

\* ------------------------------------------------------------------------
\* Settlement executor
\* ------------------------------------------------------------------------
\* processRefundInternal: result of one call on the deal row d, with the
\* payment backend accepting the transfer (backendOk) or not
ProcessRefundInternal(d, rf, tr, backendOk) ==
    IF d.status # "Failed" /\ d.status # "Cancelled"
    THEN [thrown |-> TRUE, refunds |-> rf, transfers |-> tr]
    ELSE IF ~identities[d.advertiser_id].solana_wallet_address
    THEN [thrown |-> TRUE, refunds |-> rf, transfers |-> tr]
    ELSE IF ~backendOk
    THEN [thrown |-> TRUE, refunds |-> rf, transfers |-> tr]
    ELSE [thrown |-> FALSE,
          refunds |-> Insert(rf, [status |-> "completed", via |-> "solana"]),
          transfers |-> [tr EXCEPT !.refund = @ + 1]]

\* processPayoutInternal
ProcessPayoutInternal(d, po, tr, backendOk) ==
    IF d.status # "Completed"
    THEN [thrown |-> TRUE, payouts |-> po, transfers |-> tr]
    ELSE IF d.creator_id = Null \/ ~identities[d.creator_id].solana_wallet_address
    THEN [thrown |-> TRUE, payouts |-> po, transfers |-> tr]
    ELSE IF ~backendOk
    THEN [thrown |-> TRUE, payouts |-> po, transfers |-> tr]
    ELSE [thrown |-> FALSE,
          payouts |-> Insert(po, [status |-> "Completed", method |-> "Solana"]),
          transfers |-> [tr EXCEPT !.payout = @ + 1]]

\* processCreatorPayout
ProcessCreatorPayout(d, po, tr, backendOk) ==
    LET paymentMethod == PaymentMethodOf(EventOfType("Created"))
        creatorSet == d.creator_id # Null
    IN  IF paymentMethod = "solana"
        THEN IF ~creatorSet \/ ~identities[d.creator_id].solana_wallet_address
             THEN [thrown |-> TRUE, payouts |-> po, transfers |-> tr]
             ELSE ProcessPayoutInternal(d, po, tr, backendOk)
        ELSE IF ~creatorSet \/ ~identities[d.creator_id].stripe_connect_account_id
             THEN [thrown |-> TRUE, payouts |-> po, transfers |-> tr]
             ELSE [thrown |-> FALSE,
                   payouts |-> Insert(po, [status |-> "pending_settlement",
                                           method |-> "stripe"]),
                   transfers |-> tr]

\* processRefund of the cron handler
ProcessRefund(d, rf, tr, ev, backendOk) ==
    LET escrow == EventOfType("FundEscrow")
        existingRefund == Single(rf, LAMBDA r : TRUE)
        same == [thrown |-> FALSE, refunds |-> rf, transfers |-> tr,
                 escrow_events |-> ev]
    IN  IF escrow = {} THEN same
        ELSE IF existingRefund # {}
                /\ TheRow(existingRefund).status \in {"completed", "processing"}
        THEN same
        ELSE IF PaymentMethodOf(escrow) = "solana"
        THEN LET r == ProcessRefundInternal(d, rf, tr, backendOk)
             IN  [thrown |-> r.thrown, refunds |-> r.refunds,
                  transfers |-> r.transfers, escrow_events |-> ev]
        ELSE IF ~backendOk
        THEN [thrown |-> TRUE, refunds |-> rf, transfers |-> tr,
              escrow_events |-> ev]
        ELSE [thrown |-> FALSE,
              refunds |-> Insert(rf, [status |-> "processing", via |-> "stripe"]),
              transfers |-> [tr EXCEPT !.refund = @ + 1],
              escrow_events |-> Insert(ev, [event_type |-> "Refunded",
                                            payment_method |-> Null])]

\* processAutomaticRefund of the orchestrator callback, on the updated deal
ProcessAutomaticRefund(d, rf, tr, backendOk) ==
    LET paymentMethod == PaymentMethodOf(EventOfType("Created"))
    IN  IF paymentMethod = "solana"
        THEN LET r == ProcessRefundInternal(d, rf, tr, backendOk)
             IN  [deal |-> IF r.thrown
                           THEN [d EXCEPT !.failure_reason = "refund_pending"]
                           ELSE d,
                  refunds |-> r.refunds, transfers |-> r.transfers]
        ELSE [deal |-> d, refunds |-> rf, transfers |-> tr]

\* ------------------------------------------------------------------------
\* Time
\* ------------------------------------------------------------------------
Tick ==
    /\ clock < Len(Instants)
    /\ clock' = clock + 1
    /\ UNCHANGED <<deal, proof_spec, identities, env, normalized, deciding,
                   hitl_events, hitl_time, other_deals,
                   escrow_events, schedules,
                   payouts, refunds, reviews, transfers,
                   cron_runs, dispatches, claims,
                   durable_queue, queue_files, queue_jobs>>

\* ------------------------------------------------------------------------
\* Deal lifecycle handlers (deals routes)
\* ------------------------------------------------------------------------
\* POST /:id/accept
Accept(user) ==
    /\ deal.advertiser_id # user
    /\ deal.status = "PendingAcceptance"
    /\ deal' = [deal EXCEPT !.creator_id = user, !.status = "PendingFunding"]
    /\ UNCHANGED <<proof_spec, identities, env, normalized, deciding,
                   hitl_events, hitl_time, other_deals,
                   clock, escrow_events, schedules,
                   payouts, refunds, reviews, transfers,
                   cron_runs, dispatches, claims,
                   durable_queue, queue_files, queue_jobs>>

\* POST /:id/fund (Solana signature, trusted)
FundRequest(user) ==
    /\ deal.advertiser_id = user
    /\ deal.status \in {"PendingFunding", "Failed"}
    /\ escrow_events' = Insert(escrow_events,
                               [event_type |-> "Created", payment_method |-> "solana"])
    /\ deal' = [deal EXCEPT !.status = "PendingVerification",
                            !.failure_reason = Null]
    /\ UNCHANGED <<proof_spec, identities, env, normalized, deciding,
                   hitl_events, hitl_time, other_deals,
                   clock, schedules, payouts,
                   refunds, reviews, transfers,
                   cron_runs, dispatches, claims,
                   durable_queue, queue_files, queue_jobs>>

\* POST /:id/fund while the ledger is within the fundings followed
Fund(user) == RoomIn(escrow_events) /\ FundRequest(user)

\* POST /v1/solana/fund-escrow, for a transaction found confirmed on-chain
FundEscrow(user) ==
    /\ deal.advertiser_id = user
    /\ deal.status \in {"PendingFunding", "Failed"}
    /\ RoomIn(escrow_events)
    /\ deal' = [deal EXCEPT !.status = "PendingVerification"]
    /\ escrow_events' = Insert(escrow_events,
                               [event_type |-> "Created", payment_method |-> "solana"])
    /\ UNCHANGED <<proof_spec, identities, env, normalized, deciding,
                   hitl_events, hitl_time, other_deals,
                   clock, schedules, payouts,
                   refunds, reviews, transfers,
                   cron_runs, dispatches, claims,
                   durable_queue, queue_files, queue_jobs>>

\* POST /stripe, event payment_intent.succeeded carrying the deal id
StripePaymentSucceeded(isValidPayment) ==
    /\ IF isValidPayment
       THEN /\ RoomIn(escrow_events)
            /\ escrow_events' = Insert(escrow_events,
                                       [event_type |-> "Created",
                                        payment_method |-> Null])
            /\ deal' = IF deal.status \in {"PendingFunding", "Failed"}
                       THEN [deal EXCEPT !.status = "PendingVerification",
                                         !.failure_reason = Null]
                       ELSE deal
       ELSE /\ deal.status = "PendingFunding"
            /\ deal' = [deal EXCEPT !.status = "Failed",
                                    !.failure_reason = "reason"]
            /\ UNCHANGED escrow_events
    /\ UNCHANGED <<proof_spec, identities, env, normalized, deciding,
                   hitl_events, hitl_time, other_deals,
                   clock, schedules, payouts,
                   refunds, reviews, transfers,
                   cron_runs, dispatches, claims,
                   durable_queue, queue_files, queue_jobs>>

\* the interval selection with the daily interval for every duration
CheckIntervalMinutes_Daily(durationHours) == 24 * 60

\* interval between periodic checks, in minutes, for a duration in whole
\* hours (the sub-hour test branch, duration <= 0.1h, takes no whole hour)
CheckIntervalMinutes(durationHours) ==
    IF durationHours <= 24 THEN 4 * 60
    ELSE IF durationHours <= 72 THEN 12 * 60
    ELSE 24 * 60

\* the periodic rows from nextCheck on, while nextCheck < deadline
RECURSIVE PeriodicRows(_, _, _)
PeriodicRows(nextCheck, interval, deadline) ==
    IF nextCheck < deadline
    THEN <<[check_type |-> "periodic", scheduled_at |-> nextCheck,
            status |-> "pending"]>>
         \o PeriodicRows(nextCheck + interval, interval, deadline)
    ELSE <<>>

\* the schedule rows inserted at post submission: the update's returned row
\* carries no proof_specs relation, so the duration read there is the default
ScheduleLadder(t, deadline) ==
    LET durationHours == 24
        interval == CheckIntervalMinutes(durationHours)
    IN  <<[check_type |-> "initial", scheduled_at |-> t, status |-> "pending"]>>
        \o PeriodicRows(t + interval, interval, deadline)
        \o <<[check_type |-> "final", scheduled_at |-> deadline,
              status |-> "pending"]>>

\* an insert into the reviews table: the database gives the row its id
InsertReview(b, row) ==
    Insert(b, [f \in DOMAIN row \cup {"id"} |->
                  IF f = "id" THEN BagCount(b) + 1 ELSE row[f]])

\* HITLService.createReview: the reviews row it inserts
ServiceReview(reason, severity) ==
    [reason_code |-> reason, priority |-> severity, status |-> "Open",
     decision |-> Null, reviewer_id |-> Null]

\* POST /:id/submit-post with a post_url that passes URL validation
PostSubmission(user) ==
    /\ deal.creator_id = user
    /\ deal.status = "PendingVerification"
    /\ deal' = [deal EXCEPT !.status = "Verifying", !.posted_at = now,
                            !.post_url = "url"]
    /\ schedules' = schedules \o ScheduleLadder(now, deal.deadline_iso)
    /\ reviews' = IF env.HITL_ENABLED /\ ~env.ORCHESTRATOR_ENABLED
                  THEN InsertReview(reviews,
                                    ServiceReview("ORCHESTRATOR_DISABLED",
                                                  "high"))
                  ELSE reviews
    /\ Within(payouts, refunds, reviews', transfers)
    /\ UNCHANGED <<proof_spec, identities, env, normalized, deciding,
                   hitl_events, hitl_time, other_deals,
                   clock, escrow_events, payouts,
                   refunds, transfers,
                   cron_runs, dispatches, claims,
                   durable_queue, queue_files, queue_jobs>>

\* the post submissions whose ladder fits the cap on schedule rows
SubmitPost(user) ==
    /\ Len(schedules) + Len(ScheduleLadder(now, deal.deadline_iso)) <= MaxSchedules
    /\ PostSubmission(user)

\* POST /:id/cancel
Cancel(user) ==
    /\ deal.advertiser_id = user \/ deal.creator_id = user
    /\ deal' = [deal EXCEPT !.status = "Cancelled"]
    /\ UNCHANGED <<proof_spec, identities, env, normalized, deciding,
                   hitl_events, hitl_time, other_deals,
                   clock, escrow_events, schedules,
                   payouts, refunds, reviews, transfers,
                   cron_runs, dispatches, claims,
                   durable_queue, queue_files, queue_jobs>>

\* POST /:id/mark-completed
MarkCompleted(user) ==
    /\ deal.advertiser_id = user \/ deal.creator_id = user
    /\ deal' = [deal EXCEPT !.status = "Completed", !.posted_at = now]
    /\ UNCHANGED <<proof_spec, identities, env, normalized, deciding,
                   hitl_events, hitl_time, other_deals,
                   clock, escrow_events, schedules,
                   payouts, refunds, reviews, transfers,
                   cron_runs, dispatches, claims,
                   durable_queue, queue_files, queue_jobs>>

\* ------------------------------------------------------------------------
\* Orchestrator callback
\* ------------------------------------------------------------------------
\* authenticated callback bodies: the nested shape sent by the analysis
\* server and the flat legacy shape
\* (the analysis server's error body carries no analysis, so no score, which
\* reads as 0; so does a legacy body without verification_status)
NewPayloads ==
    [shape : {"new"}, status : {"completed"}, overall_score : Scores,
     overall_confidence : Confidences, requirements_failed : {0, 1}]
    \cup [shape : {"new"}, status : {"error"}, overall_score : {0},
          overall_confidence : {NoNum}, requirements_failed : {0}]

LegacyPayloads ==
    [shape : {"legacy"}, status : {"completed", "error"},
     overall_score : Scores, overall_confidence : {NoNum},
     requirements_failed : {0}]
    \cup [shape : {"legacy"}, status : {"failed", Null}, overall_score : {0},
          overall_confidence : {NoNum}, requirements_failed : {0}]

Payloads == NewPayloads \cup LegacyPayloads

\* payload normalisation: verificationStatus and overallScore
Normalize(p) ==
    IF p.shape = "new"
    THEN [verificationStatus |->
              IF p.status = "completed" THEN "completed" ELSE "failed",
          overallScore |-> p.overall_score]
    ELSE [verificationStatus |-> IF p.status = Null THEN "error" ELSE p.status,
          overallScore |-> p.overall_score]

\* overall_confidence || score
ConfidenceOf(p, score) ==
    IF p.overall_confidence = NoNum \/ p.overall_confidence = 0
    THEN score ELSE p.overall_confidence

\* the decision logic with the score looked at before the requirements
Decide_ScoreFirst(verificationStatus, score, confidence, requirementsFailed) ==
    IF verificationStatus = "error"
    THEN [finalStatus |-> "Verifying", failureReason |-> "reason",
          shouldCreateHITLReview |-> TRUE]
    ELSE IF verificationStatus = "failed"
    THEN [finalStatus |-> "Failed", failureReason |-> "reason",
          shouldCreateHITLReview |-> FALSE]
    ELSE IF score >= 80
    THEN [finalStatus |-> "Verifying", failureReason |-> Null,
          shouldCreateHITLReview |-> FALSE]
    ELSE IF requirementsFailed > 0
    THEN [finalStatus |-> "Failed", failureReason |-> "reason",
          shouldCreateHITLReview |-> FALSE]
    ELSE IF score >= 60 \/ confidence < 70
    THEN [finalStatus |-> "Verifying", failureReason |-> Null,
          shouldCreateHITLReview |-> TRUE]
    ELSE [finalStatus |-> "Failed", failureReason |-> "reason",
          shouldCreateHITLReview |-> FALSE]

\* decision logic: final status, failure reason, HITL flag (the failure
\* reason texts are not told apart: "reason" stands for each of them)
Decide(verificationStatus, score, confidence, requirementsFailed) ==
    IF verificationStatus = "error"
    THEN [finalStatus |-> "Verifying", failureReason |-> "reason",
          shouldCreateHITLReview |-> TRUE]
    ELSE IF verificationStatus = "failed"
    THEN [finalStatus |-> "Failed", failureReason |-> "reason",
          shouldCreateHITLReview |-> FALSE]
    ELSE IF requirementsFailed > 0
    THEN [finalStatus |-> "Failed", failureReason |-> "reason",
          shouldCreateHITLReview |-> FALSE]
    ELSE IF score >= 80
    THEN [finalStatus |-> "Verifying", failureReason |-> Null,
          shouldCreateHITLReview |-> FALSE]
    ELSE IF score >= 60 \/ confidence < 70
    THEN [finalStatus |-> "Verifying", failureReason |-> Null,
          shouldCreateHITLReview |-> TRUE]
    ELSE [finalStatus |-> "Failed", failureReason |-> "reason",
          shouldCreateHITLReview |-> FALSE]

\* data.analysis.overall_score of the stored orchestrator_result
StoredAnalysisScore(p, verificationStatus, overallScore) ==
    IF verificationStatus \in {"error", "failed"} \/ overallScore = 0
    THEN overallScore
    ELSE IF p.shape = "new" THEN p.overall_score ELSE NoNum

\* the reviews row of the callback's direct insert
DirectReview(confidence) ==
    [reason_code |-> Null,
     priority |-> IF confidence < 50 THEN "high" ELSE "medium",
     status |-> "Open", decision |-> Null, reviewer_id |-> Null]

\* indexes of the rows the callback's schedule query may return (limit 1,
\* ordered by scheduled_at; rows scheduled at the same time in either order)
EarliestOpen(sch) ==
    LET open == {i \in DOMAIN sch : sch[i].status \in {"running", "pending"}}
    IN  {i \in open : \A j \in open : sch[i].scheduled_at <= sch[j].scheduled_at}

\* outcomes of the refund transfer a callback may attempt: the backend is
\* reached only when the decision is Failed
BackendOutcomes(p) ==
    LET n == Normalize(p)
        dec == Decide(n.verificationStatus, n.overallScore,
                      ConfidenceOf(p, n.overallScore), p.requirements_failed)
    IN  IF dec.finalStatus = "Failed" THEN BOOLEAN ELSE {TRUE}

\* POST /callback for the deal; the orchestrator calls back only for a deal
\* that was dispatched to it, which first happens at post submission
Callback(p, backendOk) ==
    LET n == Normalize(p)
        vs == n.verificationStatus
        score == n.overallScore
        confidence == ConfidenceOf(p, score)
        dec == Decide(vs, score, confidence, p.requirements_failed)
        updated ==
            [deal EXCEPT
                !.status = dec.finalStatus,
                !.failure_reason =
                    IF dec.finalStatus = "Failed" THEN dec.failureReason ELSE @,
                !.orchestrator_result = StoredAnalysisScore(p, vs, score),
                !.last_verification_at = now,
                !.verification_score = score]
        reviews1 == IF dec.shouldCreateHITLReview
                    THEN InsertReview(reviews, DirectReview(confidence))
                    ELSE reviews
        refund == IF dec.finalStatus = "Failed"
                  THEN ProcessAutomaticRefund(updated, refunds, transfers, backendOk)
                  ELSE [deal |-> updated, refunds |-> refunds,
                        transfers |-> transfers]
        reviews2 == IF dec.finalStatus = "Verifying" /\ env.HITL_ENABLED
                    THEN InsertReview(reviews1,
                                ServiceReview(IF vs = "error"
                                              THEN "ORCHESTRATOR_ERROR"
                                              ELSE "MANUAL_REVIEW_NEEDED",
                                              IF score < 60 THEN "high" ELSE "medium"))
                    ELSE reviews1
    IN  /\ deal.post_url # Null
        /\ Within(payouts, refund.refunds, reviews2, refund.transfers)
        /\ deal' = refund.deal
        /\ refunds' = refund.refunds
        /\ transfers' = refund.transfers
        /\ reviews' = reviews2
        /\ IF EarliestOpen(schedules) = {}
           THEN UNCHANGED schedules
           ELSE \E i \in EarliestOpen(schedules) :
                   schedules' = [schedules EXCEPT ![i].status = "completed"]
        /\ UNCHANGED <<proof_spec, identities, env, normalized, deciding,
                   hitl_events, hitl_time, other_deals,
                       clock, escrow_events, payouts,
                   cron_runs, dispatches, claims,
                   durable_queue, queue_files, queue_jobs>>

\* ------------------------------------------------------------------------
\* Cron handler: schedule dispatch, then the duration sweep
\* ------------------------------------------------------------------------
\* proofSpecs?.duration_hours || 24
DurationHoursOf(ps) == IF ps.duration_hours = 0 THEN 24 ELSE ps.duration_hours

\* the due-schedule query without its status filter
DueSchedules_AnyStatus(d, sch, t) ==
    {i \in DOMAIN sch : /\ sch[i].scheduled_at <= t + 5
                        /\ d.status = "Verifying"
                        /\ d.post_url # Null}

\* rows of the due-schedule query
DueSchedules(d, sch, t) ==
    {i \in DOMAIN sch : /\ sch[i].status = "pending"
                        /\ sch[i].scheduled_at <= t + 5
                        /\ d.status = "Verifying"
                        /\ d.post_url # Null}

\* the dispatch loop leaving a row whose dispatch failed marked running
DispatchDue_FailureRuns(d, sch, t, oks) ==
    [i \in DOMAIN sch |->
        IF i \notin DueSchedules(d, sch, t) THEN sch[i]
        ELSE IF t > d.deadline_iso THEN [sch[i] EXCEPT !.status = "expired"]
        ELSE [sch[i] EXCEPT !.status = "running"]]

\* the dispatch loop over the due rows, oks[i] telling whether the dispatch
\* of row i succeeded
DispatchDue(d, sch, t, oks) ==
    [i \in DOMAIN sch |->
        IF i \notin DueSchedules(d, sch, t) THEN sch[i]
        ELSE IF t > d.deadline_iso THEN [sch[i] EXCEPT !.status = "expired"]
        ELSE IF oks[i] THEN [sch[i] EXCEPT !.status = "running"]
        ELSE [sch[i] EXCEPT !.status = "failed"]]

\* .update({status: to}).eq('status', 'pending') on the deal's schedules
ClosePending(sch, to) ==
    [i \in DOMAIN sch |->
        IF sch[i].status = "pending" THEN [sch[i] EXCEPT !.status = to]
        ELSE sch[i]]

\* processVerificationCompletion, for the deal
ProcessVerificationCompletion(d, ps, sch, po, rf, tr, ev, t, backendOk) ==
    LET same == [deal |-> d, schedules |-> sch, payouts |-> po, refunds |-> rf,
                 transfers |-> tr, escrow_events |-> ev]
        completionTime == d.posted_at + DurationHoursOf(ps) * 60
        hasVerificationSuccess ==
            d.verification_score >= 80 \/ d.orchestrator_result >= 80
    IN  IF ~(d.status = "Verifying" /\ d.last_verification_at # NoNum
             /\ d.posted_at # NoNum)
        THEN same
        ELSE IF t < completionTime THEN same
        ELSE IF hasVerificationSuccess
        THEN LET done == [d EXCEPT !.status = "Completed"]
                 r == ProcessCreatorPayout(done, po, tr, backendOk)
             IN  [same EXCEPT !.deal = done,
                              !.schedules = ClosePending(sch, "completed"),
                              !.payouts = r.payouts,
                              !.transfers = r.transfers]
        ELSE LET failed == [d EXCEPT !.status = "Failed",
                                     !.failure_reason = "reason"]
                 r == ProcessRefund(failed, rf, tr, ev, backendOk)
             IN  [same EXCEPT !.deal = failed,
                              !.schedules = ClosePending(sch, "cancelled"),
                              !.refunds = r.refunds,
                              !.transfers = r.transfers,
                              !.escrow_events = r.escrow_events]

\* the candidate query and loop of processVerificationCompletion over the
\* other deals: every candidate the query returns is checked, and the query
\* carries no limit
SweepOthers(od) ==
    [candidates |-> 0, checked |-> od.checked + od.candidates]

\* scheduled(): one cron tick, the dispatches of its due rows succeeding as
\* oks tells and the payment backend accepting a transfer as backendOk tells
CronTick(oks, backendOk) ==
    LET sch1 == DispatchDue(deal, schedules, now, oks)
        r == ProcessVerificationCompletion(deal, proof_spec, sch1, payouts,
                                           refunds, transfers, escrow_events,
                                           now, backendOk)
    IN  /\ Within(r.payouts, r.refunds, reviews, r.transfers)
        /\ deal' = r.deal
        /\ schedules' = r.schedules
        /\ payouts' = r.payouts
        /\ refunds' = r.refunds
        /\ transfers' = r.transfers
        /\ escrow_events' = r.escrow_events
        /\ other_deals' = SweepOthers(other_deals)
        /\ UNCHANGED <<proof_spec, identities, env, normalized, deciding,
                   hitl_events, hitl_time, clock, reviews,
                   cron_runs, dispatches, claims,
                   durable_queue, queue_files, queue_jobs>>

Scheduled ==
    \E oks \in [DueSchedules(deal, schedules, now) -> BOOLEAN], ok \in BOOLEAN :
        CronTick(oks, ok)

\* ------------------------------------------------------------------------
\* Settlement endpoints
\* ------------------------------------------------------------------------
\* POST /v1/solana/release-escrow
ReleaseEscrow(backendOk) ==
    LET r == ProcessPayoutInternal(deal, payouts, transfers, backendOk)
    IN  /\ Within(r.payouts, refunds, reviews, r.transfers)
        /\ payouts' = r.payouts
        /\ transfers' = r.transfers
        /\ UNCHANGED <<deal, proof_spec, identities, env, normalized, deciding,
                   hitl_events, hitl_time, other_deals,
                       clock, escrow_events,
                       schedules, refunds, reviews,
                   cron_runs, dispatches, claims,
                   durable_queue, queue_files, queue_jobs>>

\* POST /v1/solana/refund-escrow
RefundEscrow(backendOk) ==
    LET r == ProcessRefundInternal(deal, refunds, transfers, backendOk)
    IN  /\ Within(payouts, r.refunds, reviews, r.transfers)
        /\ refunds' = r.refunds
        /\ transfers' = r.transfers
        /\ UNCHANGED <<deal, proof_spec, identities, env, normalized, deciding,
                   hitl_events, hitl_time, other_deals,
                       clock, escrow_events,
                       schedules, payouts, reviews,
                   cron_runs, dispatches, claims,
                   durable_queue, queue_files, queue_jobs>>

\* POST /trigger-payout/:dealId
TriggerPayout(backendOk) ==
    /\ deal.status = "Completed"
    /\ LET r == ProcessCreatorPayout(deal, EmptyBag, transfers, backendOk)
       IN  /\ Within(r.payouts, refunds, reviews, r.transfers)
           /\ payouts' = r.payouts
           /\ transfers' = r.transfers
    /\ UNCHANGED <<deal, proof_spec, identities, env, normalized, deciding,
                   hitl_events, hitl_time, other_deals,
                   clock, escrow_events,
                   schedules, refunds, reviews,
                   cron_runs, dispatches, claims,
                   durable_queue, queue_files, queue_jobs>>

\* POST /v1/refunds/process with a valid reason; Stripe accepts a refund
\* (backendOk) only of a payment that was made through Stripe
RefundsProcess(backendOk) ==
    LET escrow == EventOfType("Created")
        existingRefund == Single(refunds, LAMBDA r : TRUE)
    IN  /\ escrow # {}
        /\ ~(existingRefund # {}
             /\ TheRow(existingRefund).status \in {"completed", "processing"})
        /\ backendOk
        /\ TheRow(escrow).payment_method = Null
        /\ LET rf == Insert(refunds, [status |-> "processing", via |-> "stripe"])
               tr == [transfers EXCEPT !.refund = @ + 1]
           IN  /\ Within(payouts, rf, reviews, tr)
               /\ refunds' = rf
               /\ transfers' = tr
        /\ deal' = [deal EXCEPT !.status = "Cancelled",
                                !.failure_reason = "reason"]
        /\ escrow_events' = Insert(escrow_events,
                                   [event_type |-> "Refunded",
                                    payment_method |-> Null])
        /\ UNCHANGED <<proof_spec, identities, env, normalized, deciding,
                   hitl_events, hitl_time, other_deals,
                       clock, schedules, payouts,
                       reviews,
                   cron_runs, dispatches, claims,
                   durable_queue, queue_files, queue_jobs>>

Next ==
    \/ Tick
    \/ \E u \in Users : Accept(u)
    \/ \E u \in Users : Fund(u)
    \/ \E u \in Users : FundEscrow(u)
    \/ \E v \in BOOLEAN : StripePaymentSucceeded(v)
    \/ \E u \in Users : SubmitPost(u)
    \/ \E u \in Users : Cancel(u)
    \/ \E u \in Users : MarkCompleted(u)
    \/ \E p \in Payloads : \E ok \in BackendOutcomes(p) : Callback(p, ok)
    \/ Scheduled
    \/ \E ok \in BOOLEAN : ReleaseEscrow(ok)
    \/ \E ok \in BOOLEAN : RefundEscrow(ok)
    \/ \E ok \in BOOLEAN : TriggerPayout(ok)
    \/ \E ok \in BOOLEAN : RefundsProcess(ok)

Spec == Init /\ [][Next]_vars

\* ------------------------------------------------------------------------
\* Properties
\* ------------------------------------------------------------------------
Terminal == {"Completed", "Failed", "Cancelled"}

\* a step of the callback handler processing payload p
CallbackStep(p) == \E ok \in BackendOutcomes(p) : Callback(p, ok)

\* the final status the callback decides for payload p
FinalStatusOf(p) ==
    Decide(Normalize(p).verificationStatus, Normalize(p).overallScore,
           ConfidenceOf(p, Normalize(p).overallScore),
           p.requirements_failed).finalStatus

\* a step of one of the three funding confirmations that takes effect
FundingStep ==
    \/ \E u \in Users : Fund(u)
    \/ \E u \in Users : FundEscrow(u)
    \/ StripePaymentSucceeded(TRUE)

\* C1: however often and from whichever path (duration sweep, trigger-payout,
\* release-escrow) escrow is released, the deal has at most one non-failed
\* Payout row.
C1_OneNonFailedPayout == CountWhere(payouts, NonFailed) <= 1

\* C2: however often and from whichever path (callback refund, sweep refund,
\* refunds /process, refund-escrow) escrow is refunded, the deal has at most
\* one non-failed Refund row.
C2_OneNonFailedRefund == CountWhere(refunds, NonFailed) <= 1

\* C3: a callback processed for a deal that is already Completed, Failed or
\* Cancelled leaves the deal's status as it is.
C3_StaleCallbackKeepsStatus ==
    [][\A p \in Payloads :
          (deal.status \in Terminal /\ CallbackStep(p))
              => deal'.status = deal.status]_vars

\* C4: a callback that repeats the result already recorded on a Failed deal
\* (same score, same stored analysis, Failed again) and already refunded
\* adds no Refund row.
C4_DuplicateCallbackNoSecondRefund ==
    [][\A p \in Payloads :
          (/\ deal.status = "Failed"
           /\ CountWhere(refunds, NonFailed) >= 1
           /\ deal.last_verification_at # NoNum
           /\ deal.verification_score = Normalize(p).overallScore
           /\ deal.orchestrator_result =
                  StoredAnalysisScore(p, Normalize(p).verificationStatus,
                                      Normalize(p).overallScore)
           /\ FinalStatusOf(p) = "Failed"
           /\ CallbackStep(p))
              => refunds' = refunds]_vars

\* C5: a Completed or Cancelled deal never changes status, a Failed deal
\* changes status only to PendingVerification and only by a funding
\* confirmation, and a deal becomes Cancelled only from a non-terminal status.
C5_TerminalAbsorbing ==
    [][/\ deal.status \in {"Completed", "Cancelled"}
           => deal'.status = deal.status
       /\ (deal.status = "Failed" /\ deal'.status # "Failed")
           => (deal'.status = "PendingVerification" /\ FundingStep)
       /\ (deal'.status = "Cancelled" /\ deal.status # "Cancelled")
           => deal.status \notin Terminal]_vars

\* C6: a callback carrying a non-empty requirements_failed list, processed
\* for a Verifying deal, leaves the deal Failed whatever its overall score
\* (so neither Verifying nor Completed).
C6_RequirementFailureDominates ==
    [][\A p \in Payloads :
          (/\ deal.status = "Verifying"
           /\ p.requirements_failed > 0
           /\ CallbackStep(p))
              => deal'.status = "Failed"]_vars

\* a deal left Failed by a result whose score is a passing one
C6_FailedDespitePassingScore ==
    /\ deal.status = "Failed"
    /\ deal.verification_score >= 80
    /\ deal.last_verification_at # NoNum

\* C7: a deal is Completed only when its duration has elapsed since posting
\* (now >= posted_at + duration_hours).
C7_DurationGating ==
    deal.status = "Completed"
        => /\ deal.posted_at # NoNum
           /\ now >= deal.posted_at + DurationHoursOf(proof_spec) * 60

\* a cron tick during which the payment backend accepts what it is sent
SweepStep ==
    \E oks \in [DueSchedules(deal, schedules, now) -> BOOLEAN] :
        CronTick(oks, TRUE)

\* C8: for a funded deal of duration 24h posted at T0 with a result of score
\* 85 recorded before the duration elapsed and no payout yet, the sweep at
\* T0+25h leaves the deal Completed with exactly one Payout row.
C8_SuccessPath ==
    [][(/\ deal.status = "Verifying"
        /\ proof_spec.duration_hours = 24
        /\ deal.posted_at = 0
        /\ deal.verification_score = 85
        /\ deal.last_verification_at = 0
        /\ EventOfType("Created") # {}
        /\ payouts = EmptyBag
        /\ now = 1500
        /\ SweepStep)
           => (deal'.status = "Completed" /\ BagCount(payouts') = 1)]_vars

\* C9: a callback whose outcome is error, in either payload shape, processed
\* for a Verifying deal, leaves the deal Verifying and adds neither a Payout
\* nor a Refund row.
C9_ErrorKeepsVerifying ==
    [][\A p \in Payloads :
          (/\ deal.status = "Verifying"
           /\ p.status = "error"
           /\ CallbackStep(p))
              => /\ deal'.status = "Verifying"
                 /\ payouts' = payouts
                 /\ refunds' = refunds]_vars

\* C10: each callback whose outcome is error adds exactly one Review row,
\* and that row has reason ORCHESTRATOR_ERROR.
C10_ErrorCreatesOneReview ==
    [][\A p \in Payloads :
          (p.status = "error" /\ CallbackStep(p))
              => \E r \in Rows(reviews') :
                    /\ r.reason_code = "ORCHESTRATOR_ERROR"
                    /\ reviews' = Insert(reviews, r)]_vars

\* a callback step for payload p whose refund transfer, if one is sent, is
\* accepted by the payment backend
CallbackStepOk(p) == Callback(p, TRUE)

\* C11: a completed result with no failed requirement, overall score below 60
\* and confidence at least 70, processed for a funded Verifying deal, leaves
\* the deal Failed and adds exactly one Refund row in that same step.
C11_LowScoreFailsAndRefunds ==
    [][\A p \in Payloads :
          (/\ deal.status = "Verifying"
           /\ EventOfType("Created") # {}
           /\ Normalize(p).verificationStatus = "completed"
           /\ p.requirements_failed = 0
           /\ Normalize(p).overallScore < 60
           /\ ConfidenceOf(p, Normalize(p).overallScore) >= 70
           /\ CallbackStepOk(p))
              => /\ deal'.status = "Failed"
                 /\ BagCount(refunds') = BagCount(refunds) + 1]_vars

\* the rows a step adds to the reviews table
AddedReviews == {r \in Rows(reviews') : CopiesIn(r, reviews') > CopiesIn(r, reviews)}

\* C12: a completed result with no failed requirement and overall score below
\* 80 that has score at least 60 or confidence below 70, processed for a
\* Verifying deal, leaves the deal Verifying and adds a Review row with reason
\* MANUAL_REVIEW_NEEDED or INFERENCE_AMBIGUOUS and severity medium.
C12_AmbiguousBandReview ==
    [][\A p \in Payloads :
          (/\ deal.status = "Verifying"
           /\ Normalize(p).verificationStatus = "completed"
           /\ p.requirements_failed = 0
           /\ Normalize(p).overallScore < 80
           /\ \/ Normalize(p).overallScore >= 60
              \/ ConfidenceOf(p, Normalize(p).overallScore) < 70
           /\ CallbackStep(p))
              => /\ deal'.status = "Verifying"
                 /\ \E r \in AddedReviews :
                       /\ r.reason_code \in {"MANUAL_REVIEW_NEEDED",
                                             "INFERENCE_AMBIGUOUS"}
                       /\ r.priority = "medium"]_vars

\* C13: a sweep (with the payment backend accepting transfers) that finds a
\* funded Verifying deal whose duration has elapsed and whose last recorded
\* verification_score is below 80 leaves the deal Failed and leaves a Refund
\* row for it.
C13_SweepFailureRefunds ==
    [][(/\ deal.status = "Verifying"
        /\ deal.last_verification_at # NoNum
        /\ deal.posted_at # NoNum
        /\ now >= deal.posted_at + DurationHoursOf(proof_spec) * 60
        /\ deal.verification_score < 80
        /\ EventOfType("Created") # {}
        /\ SweepStep)
           => (deal'.status = "Failed" /\ BagCount(refunds') >= 1)]_vars

\* a verification that passed is recorded on the deal, or a reviewer has
\* decided one of its reviews
VerifiedDelivery ==
    \/ deal.verification_score >= 80
    \/ deal.orchestrator_result >= 80
    \/ \E r \in Rows(reviews) : r.status # "Open"

\* C14: a step executes a payout (sends a payout transfer or adds a Payout
\* row) only for a deal on which a successful verification or a reviewer
\* decision is recorded.
C14_PayoutOnlyAfterVerifiedDelivery ==
    [][(\/ transfers'.payout > transfers.payout
        \/ BagCount(payouts') > BagCount(payouts))
           => VerifiedDelivery]_vars

\* ------------------------------------------------------------------------
\* Schedule ladder: post submission over a range of deadlines and durations
\* ------------------------------------------------------------------------
\* longest deadline of a deal, in hours after T0
MaxDeadlineHours == 36

LadderDeadlines == {60 * h : h \in 1..MaxDeadlineHours}

\* duration_hours of the proof spec (request input of deal creation)
LadderDurations == {24, 72, 168}

\* a deal created with one of the deadlines and durations, accepted by the
\* creator and funded through POST /:id/fund, waiting for the post
LadderInit ==
    /\ \E dl \in LadderDeadlines :
          deal = [InitDeal(dl) EXCEPT !.creator_id = "cre",
                                      !.status = "PendingVerification"]
    /\ \E dh \in LadderDurations : proof_spec = [duration_hours |-> dh]
    /\ identities \in [Users -> [solana_wallet_address : {TRUE},
                                 stripe_connect_account_id : {FALSE}]]
    /\ env \in [HITL_ENABLED : {TRUE}, ORCHESTRATOR_ENABLED : {TRUE}]
    /\ clock = 1
    /\ escrow_events = SetToBag({[event_type |-> "Created",
                                  payment_method |-> "solana"]})
    /\ schedules = <<>>
    /\ payouts = EmptyBag
    /\ refunds = EmptyBag
    /\ reviews = EmptyBag
    /\ transfers = [payout |-> 0, refund |-> 0]
    /\ normalized = {}
    /\ deciding = {}
    /\ hitl_events = <<>>
    /\ hitl_time = 0
    /\ cron_runs = NoRuns
    /\ dispatches = EmptyBag
    /\ claims = {}
    /\ durable_queue = FreshQueue
    /\ queue_files = NoFiles
    /\ queue_jobs = NoJobs
    /\ other_deals = NoOtherDeals

LadderNext ==
    \/ Tick
    \/ \E u \in Users : PostSubmission(u)

LadderSpec == LadderInit /\ [][LadderNext]_vars

\* the rows of the ladder of one check type
RowsOfType(t) == {i \in DOMAIN schedules : schedules[i].check_type = t}

\* the periodic rows start one interval after posting and follow each other
\* at that interval, none of them twice
PeriodicSpaced(interval) ==
    \A i \in RowsOfType("periodic") :
        /\ \/ schedules[i].scheduled_at = deal.posted_at + interval
           \/ \E j \in RowsOfType("periodic") :
                 schedules[j].scheduled_at = schedules[i].scheduled_at - interval
        /\ \A j \in RowsOfType("periodic") :
              schedules[j].scheduled_at = schedules[i].scheduled_at => j = i

C16_IntervalFromDuration ==
    deal.status = "Verifying"
        => PeriodicSpaced(CheckIntervalMinutes(DurationHoursOf(proof_spec)))

\* C17: while the deal is Verifying and its deadline has not passed, the
\* final row of its ladder leaves the pending state only by being dispatched
\* by a cron tick (running, or failed when the dispatch fails); it is not
\* closed undispatched.
C17_FinalRowDispatched ==
    [][\A i \in DOMAIN schedules :
          (/\ schedules[i].check_type = "final"
           /\ schedules[i].status = "pending"
           /\ deal.status = "Verifying"
           /\ deal'.status = "Verifying"
           /\ now <= deal.deadline_iso
           /\ i \in DOMAIN schedules'
           /\ schedules'[i].status # "pending")
              => schedules'[i].status \in {"running", "failed"}]_vars

\* C18: a fund confirmation (deals fund endpoint, Stripe webhook, Solana
\* fund-escrow endpoint) for a deal in PendingFunding or Failed clears
\* failure_reason, sets status PendingVerification and appends one Created
\* escrow event; for a deal in any other status it changes neither the deal
\* nor its escrow events.
C18_FundConfirmation ==
    [][FundingStep =>
          IF deal.status \in {"PendingFunding", "Failed"}
          THEN /\ deal'.failure_reason = Null
               /\ deal'.status = "PendingVerification"
               /\ \E r \in Rows(escrow_events') :
                     /\ r.event_type = "Created"
                     /\ escrow_events' = Insert(escrow_events, r)
          ELSE /\ deal' = deal
               /\ escrow_events' = escrow_events]_vars

\* the statuses a deal reaches only by way of an acceptance; Cancelled is left
\* out, a deal may be withdrawn before anyone accepted it
PastAcceptance ==
    {"PendingFunding", "PendingVerification", "Verifying", "Completed", "Failed"}

\* C19: in every reachable state the deal's creator_id is null while the deal
\* is PendingAcceptance and set once the deal is in PendingFunding or a later
\* status of the lifecycle.
C19_CreatorSetIffAccepted ==
    /\ deal.status = "PendingAcceptance" => deal.creator_id = Null
    /\ deal.status \in PastAcceptance => deal.creator_id # Null

\* ------------------------------------------------------------------------
\* Callback normaliser on raw request bodies
\* ------------------------------------------------------------------------
\* the keys a parsed JSON body may carry: data (with data.deal_id and
\* data.analysis.overall_score), status, deal_id, verification_status,
\* overall_score; Null / NoNum stand for an absent key
BodyKeys ==
    [has_data : BOOLEAN, data_deal_id : {Null, "d1"},
     data_analysis_overall_score : {NoNum, 0, 85},
     status : {Null, "completed", "error"}, deal_id : {Null, "d1"},
     verification_status : {Null, "completed", "error"},
     overall_score : {NoNum, 0, 85}]

NoKeys ==
    [has_data |-> FALSE, data_deal_id |-> Null,
     data_analysis_overall_score |-> NoNum, status |-> Null, deal_id |-> Null,
     verification_status |-> Null, overall_score |-> NoNum]

\* bodies that c.req.json() returns: the JSON value null, a JSON number,
\* string or boolean, and JSON objects
RawBodies ==
    {[kind |-> k, keys |-> NoKeys] : k \in {"null", "scalar"}}
    \cup {[kind |-> "object", keys |-> ks] :
             ks \in {x \in BodyKeys :
                        ~x.has_data => /\ x.data_deal_id = Null
                                       /\ x.data_analysis_overall_score = NoNum}}

\* the handler from the parsed body to the parsed callback data: reading a
\* property of null throws a TypeError, reading one of a number, string or
\* boolean gives undefined
NormalizeBody(b) ==
    IF b.kind = "null"
    THEN [thrown |-> TRUE, dealId |-> Null, verificationStatus |-> Null,
          overallScore |-> NoNum]
    ELSE IF b.keys.has_data /\ b.keys.data_deal_id # Null
    THEN [thrown |-> FALSE, dealId |-> b.keys.data_deal_id,
          verificationStatus |->
              IF b.keys.status = "completed" THEN "completed" ELSE "failed",
          overallScore |->
              IF b.keys.data_analysis_overall_score = NoNum THEN 0
              ELSE b.keys.data_analysis_overall_score]
    ELSE IF b.keys.deal_id # Null
    THEN [thrown |-> FALSE, dealId |-> b.keys.deal_id,
          verificationStatus |->
              IF b.keys.verification_status = Null THEN "error"
              ELSE b.keys.verification_status,
          overallScore |->
              IF b.keys.overall_score = NoNum THEN 0 ELSE b.keys.overall_score]
    ELSE [thrown |-> FALSE, dealId |-> Null, verificationStatus |-> "error",
          overallScore |-> 0]

\* the normaliser given the raw body b of an authenticated request
ParseCallback(b) ==
    /\ normalized' = {[body |-> b, result |-> NormalizeBody(b)]}
    /\ UNCHANGED <<deal, proof_spec, identities, env, clock, escrow_events,
                   schedules, payouts, refunds, reviews, transfers,
                   other_deals, deciding, hitl_events, hitl_time,
                   cron_runs, dispatches, claims,
                   durable_queue, queue_files, queue_jobs>>

NormalizerNext == \E b \in RawBodies : ParseCallback(b)

NormalizerSpec == Init /\ [][NormalizerNext]_vars

\* C20: the normaliser given a body that carries none of the expected keys
\* does not throw and yields outcome error with overall score 0.
C20_KeylessBodyNormalizes ==
    \A n \in normalized :
        n.body.keys = NoKeys
            => /\ ~n.result.thrown
               /\ n.result.verificationStatus = "error"
               /\ n.result.overallScore = 0

\* the due rows a cron tick tries to dispatch: the deadline has not passed
Attempted == IF now > deal.deadline_iso THEN {}
             ELSE DueSchedules(deal, schedules, now)

\* a cron tick in which the dispatch of due row i fails (the request to the
\* analysis service times out or is refused)
DispatchFailureStep(i) ==
    \E oks \in [DueSchedules(deal, schedules, now) -> BOOLEAN], ok \in BOOLEAN :
        /\ i \in Attempted
        /\ ~oks[i]
        /\ CronTick(oks, ok)

\* C21: a cron tick in which the dispatch of a due row times out leaves the
\* deal not Failed and adds a Review row for it.
C21_TimeoutRoutesToHITL ==
    [][\A i \in DOMAIN schedules :
          DispatchFailureStep(i)
              => /\ deal'.status # "Failed"
                 /\ BagCount(reviews') > BagCount(reviews)]_vars

TestVerificationCron(oks, backendOk) ==
    LET due == DueSchedules(deal, schedules, now)
        sch1 == [i \in DOMAIN schedules |->
                    IF i \in due /\ oks[i]
                    THEN [schedules[i] EXCEPT !.status = "running"]
                    ELSE schedules[i]]
        r == ProcessVerificationCompletion(deal, proof_spec, sch1, payouts,
                                           refunds, transfers, escrow_events,
                                           now, backendOk)
    IN  /\ Within(r.payouts, r.refunds, reviews, r.transfers)
        /\ deal' = r.deal
        /\ schedules' = r.schedules
        /\ payouts' = r.payouts
        /\ refunds' = r.refunds
        /\ transfers' = r.transfers
        /\ escrow_events' = r.escrow_events
        /\ other_deals' = SweepOthers(other_deals)
        /\ UNCHANGED <<proof_spec, identities, env, normalized, deciding,
                   hitl_events, hitl_time, clock, reviews,
                   cron_runs, dispatches, claims,
                   durable_queue, queue_files, queue_jobs>>

TestCron ==
    \E oks \in [DueSchedules(deal, schedules, now) -> BOOLEAN], ok \in BOOLEAN :
        TestVerificationCron(oks, ok)

\* deadlines 5h and 26h after T0
SchedulerDeadlines == {300, 1560}

\* callback bodies of the scheduler runs: a passing result and an error
SchedulerPayloads ==
    {p \in NewPayloads :
        \/ p.status = "error"
        \/ /\ p.overall_score = 85
           /\ p.overall_confidence = 90
           /\ p.requirements_failed = 0}

\* a deal of duration 24h created with one of the deadlines, accepted by the
\* creator and funded through POST /:id/fund, waiting for the post
SchedulerInit ==
    /\ \E dl \in SchedulerDeadlines :
          deal = [InitDeal(dl) EXCEPT !.creator_id = "cre",
                                      !.status = "PendingVerification"]
    /\ proof_spec = [duration_hours |-> 24]
    /\ identities \in [Users -> [solana_wallet_address : {TRUE},
                                 stripe_connect_account_id : {FALSE}]]
    /\ env \in [HITL_ENABLED : {TRUE}, ORCHESTRATOR_ENABLED : {TRUE}]
    /\ clock = 1
    /\ escrow_events = SetToBag({[event_type |-> "Created",
                                  payment_method |-> "solana"]})
    /\ schedules = <<>>
    /\ payouts = EmptyBag
    /\ refunds = EmptyBag
    /\ reviews = EmptyBag
    /\ transfers = [payout |-> 0, refund |-> 0]
    /\ normalized = {}
    /\ deciding = {}
    /\ hitl_events = <<>>
    /\ hitl_time = 0
    /\ cron_runs = NoRuns
    /\ dispatches = EmptyBag
    /\ claims = {}
    /\ durable_queue = FreshQueue
    /\ queue_files = NoFiles
    /\ queue_jobs = NoJobs
    /\ other_deals = NoOtherDeals

SchedulerNext ==
    \/ Tick
    \/ \E u \in Users : PostSubmission(u)
    \/ Scheduled
    \/ TestCron
    \/ \E p \in SchedulerPayloads : \E ok \in BackendOutcomes(p) : Callback(p, ok)

SchedulerSpec == SchedulerInit /\ [][SchedulerNext]_vars

\* the terminal statuses of a schedule row
TerminalRow == {"completed", "failed", "expired", "cancelled"}

C24_AtMostOneRunning ==
    Cardinality({i \in DOMAIN schedules : schedules[i].status = "running"}) <= 1

\* ------------------------------------------------------------------------
\* Duration sweep over many deals
\* ------------------------------------------------------------------------
\* most other deals that are candidates of the sweep or were checked by it
MaxOtherDeals == 21

\* size of the batch a tick is to handle (the limit of the due-schedule query)
BatchLimit == 20

\* a deal waiting for its post, beside some other deals that are Verifying
\* with a recorded verification and a post time
BatchInit ==
    /\ deal = [InitDeal(300) EXCEPT !.creator_id = "cre",
                                    !.status = "PendingVerification"]
    /\ proof_spec = [duration_hours |-> 24]
    /\ identities \in [Users -> [solana_wallet_address : {TRUE},
                                 stripe_connect_account_id : {FALSE}]]
    /\ env \in [HITL_ENABLED : {TRUE}, ORCHESTRATOR_ENABLED : {TRUE}]
    /\ clock = 1
    /\ escrow_events = SetToBag({[event_type |-> "Created",
                                  payment_method |-> "solana"]})
    /\ schedules = <<>>
    /\ payouts = EmptyBag
    /\ refunds = EmptyBag
    /\ reviews = EmptyBag
    /\ transfers = [payout |-> 0, refund |-> 0]
    /\ normalized = {}
    /\ deciding = {}
    /\ hitl_events = <<>>
    /\ hitl_time = 0
    /\ cron_runs = NoRuns
    /\ dispatches = EmptyBag
    /\ claims = {}
    /\ durable_queue = FreshQueue
    /\ queue_files = NoFiles
    /\ queue_jobs = NoJobs
    /\ \E n \in 0..MaxOtherDeals :
          other_deals = [candidates |-> n, checked |-> 0]

\* a callback is recorded for one more of the other deals, which makes it a
\* candidate of the sweep
OtherDealVerified ==
    /\ other_deals.candidates + other_deals.checked < MaxOtherDeals
    /\ other_deals' = [other_deals EXCEPT !.candidates = @ + 1]
    /\ UNCHANGED <<deal, proof_spec, identities, env, normalized, deciding,
                   hitl_events, hitl_time, clock,
                   escrow_events, schedules, payouts, refunds, reviews,
                   transfers,
                   cron_runs, dispatches, claims,
                   durable_queue, queue_files, queue_jobs>>

BatchNext ==
    \/ Tick
    \/ \E u \in Users : PostSubmission(u)
    \/ Scheduled
    \/ OtherDealVerified

BatchSpec == BatchInit /\ [][BatchNext]_vars

\* C25: one cron tick applies the duration-completion check to at most 20
\* deals; the candidates beyond the batch stay candidates for a later tick.
C25_SweepBatchBounded ==
    [][Scheduled =>
          /\ other_deals'.checked - other_deals.checked <= BatchLimit
          /\ other_deals'.candidates =
                 other_deals.candidates
                 - (other_deals'.checked - other_deals.checked)]_vars

\* the creator of the deal has no destination for the payment method the
\* deal was funded with
CreatorDestinationMissing ==
    /\ deal.creator_id # Null
    /\ IF PaymentMethodOf(EventOfType("Created")) = "solana"
       THEN ~identities[deal.creator_id].solana_wallet_address
       ELSE ~identities[deal.creator_id].stripe_connect_account_id

\* C26: a sweep that completes a deal whose creator has no connected payment
\* destination records the payout attempt as a Payout row in pending or
\* awaiting_connection status.
C26_MissingDestinationRecorded ==
    [][(/\ deal.status = "Verifying"
        /\ CreatorDestinationMissing
        /\ SweepStep
        /\ deal'.status = "Completed")
           => \E r \in Rows(payouts') :
                 /\ r.status \in {"pending", "awaiting_connection"}
                 /\ CopiesIn(r, payouts') > CopiesIn(r, payouts)]_vars

\* ---------------------------------------------------------------------
\* Reviewer decisions (POST /v1/reviews/:id/decision, HITLService)
\* ---------------------------------------------------------------------

\* decisions in flight at once
MaxDeciding == 2

\* the decisions the endpoint accepts
Decisions == {"release", "refund", "manual_fail", "escalate"}

\* HITLService.mapDecisionToEnum
mapDecisionToEnum(decision) ==
    CASE decision = "release" -> "ManualPass"
      [] decision \in {"refund", "manual_fail"} -> "ManualFail"
      [] decision = "escalate" -> "Retry"
      [] OTHER -> "NeedsInfo"

\* the reviews row with the given id
ReviewById(b, id) == CHOOSE r \in Rows(b) : r.id = id

\* the admin sending the decisions
Admin == "admin"

\* the update of processDecision: .eq('id', reviewId), whatever the status
CloseReview(b, id, decision) ==
    LET r == ReviewById(b, id)
    IN  Insert(b (-) SetToBag({r}),
               [r EXCEPT !.status = "Closed",
                         !.decision = mapDecisionToEnum(decision),
                         !.reviewer_id = Admin])

\* the endpoint up to its call of processDecision, for an admin sending a
\* valid decision with notes: the review is read and must not be Closed
DecisionRequest(id, decision) ==
    /\ Cardinality(deciding) < MaxDeciding
    /\ \E r \in Rows(reviews) : r.id = id /\ r.status # "Closed"
    /\ deciding' = deciding \cup {[review |-> id, decision |-> decision]}
    /\ UNCHANGED <<deal, proof_spec, identities, env, normalized, other_deals,
                   clock, escrow_events, schedules, payouts, refunds, reviews,
                   transfers,
                   hitl_events, hitl_time,
                   cron_runs, dispatches, claims,
                   durable_queue, queue_files, queue_jobs>>

\* HITLService.processDecision for a request past the checks: the review is
\* closed with the mapped decision; executeDecisionAction then calls
\* releaseEscrow or refundEscrow, which write nothing, or queues the
\* escalation notice
ProcessDecision(req) ==
    /\ req \in deciding
    /\ reviews' = CloseReview(reviews, req.review, req.decision)
    /\ deciding' = deciding \ {req}
    /\ UNCHANGED <<deal, proof_spec, identities, env, normalized, other_deals,
                   clock, escrow_events, schedules, payouts, refunds,
                   transfers,
                   hitl_events, hitl_time,
                   cron_runs, dispatches, claims,
                   durable_queue, queue_files, queue_jobs>>

ReviewIds == 1..MaxRows

DecisionRequests == [review : ReviewIds, decision : Decisions]

ReviewNext ==
    \/ Tick
    \/ \E u \in Users : PostSubmission(u)
    \/ \E p \in SchedulerPayloads : \E ok \in BackendOutcomes(p) : Callback(p, ok)
    \/ \E id \in ReviewIds, d \in Decisions : DecisionRequest(id, d)
    \/ \E req \in DecisionRequests : ProcessDecision(req)

ReviewSpec == SchedulerInit /\ [][ReviewNext]_vars

\* C27: a reviewer decision of refund or manual_fail applied to a review that
\* is not Closed sets the deal's status to Failed and triggers a refund for
\* the deal (a Refund row is added).
C27_RefundDecisionFailsDeal ==
    [][\A req \in DecisionRequests :
          (/\ req.decision \in {"refund", "manual_fail"}
           /\ req \in deciding
           /\ ReviewById(reviews, req.review).status # "Closed"
           /\ ProcessDecision(req))
              => /\ deal'.status = "Failed"
                 /\ BagCount(refunds') > BagCount(refunds)]_vars

\* C28: a decision is applied only while the review is not Closed: a
\* decision reaching a Closed review, the second of two concurrent decisions
\* included, changes neither the review's recorded decision nor the deal.
C28_ClosedReviewKeepsDecision ==
    [][\A req \in DecisionRequests :
          (/\ req \in deciding
           /\ ReviewById(reviews, req.review).status = "Closed"
           /\ ProcessDecision(req))
              => /\ reviews' = reviews
                 /\ deal' = deal]_vars

\* ---------------------------------------------------------------------
\* Notification queue (HITLService.queueNotification, processNotifications)
\* ---------------------------------------------------------------------

\* rows of the queue
MaxEvents == 2

\* the queue is followed up to this time, in seconds
MaxSeconds == 1505

\* the time between two looks at the queue, in seconds
Elapses == {301}

\* HITL_RETRY_LIMIT, by default
RetryLimit == 3

\* HITL_RETRY_INITIAL_SECONDS, by default
RetryInitialSeconds == 300

\* the hitl_events row queueNotification inserts
QueuedEvent(reviewId, eventType) ==
    [review_id |-> reviewId, event_type |-> eventType, delivered |-> FALSE,
     attempts |-> 0, last_attempt_at |-> NoNum]

\* the rows processNotifications selects at time t: not delivered, attempts
\* below the limit, never attempted or last attempted more than the retry
\* delay ago, of a review that exists
PendingNotifications(ev, rv, t) ==
    {i \in DOMAIN ev :
        /\ \E r \in Rows(rv) : r.id = ev[i].review_id
        /\ ~ev[i].delivered
        /\ ev[i].attempts < RetryLimit
        /\ \/ ev[i].last_attempt_at = NoNum
           \/ ev[i].last_attempt_at < t - RetryInitialSeconds}

\* processNotifications at time t: each selected row is sent and then marked
\* by markNotificationDelivered; sent[i] tells whether the mail went out
SendNotifications(ev, rv, t, sent) ==
    [i \in DOMAIN ev |->
        IF i \in PendingNotifications(ev, rv, t)
        THEN [ev[i] EXCEPT !.delivered = sent[i],
                           !.attempts = ev[i].attempts + 1,
                           !.last_attempt_at = t]
        ELSE ev[i]]

\* time passes
Elapse(dt) ==
    /\ hitl_time + dt <= MaxSeconds
    /\ hitl_time' = hitl_time + dt
    /\ UNCHANGED <<deal, proof_spec, identities, env, normalized, deciding,
                   hitl_events, other_deals, clock, escrow_events, schedules,
                   payouts, refunds, reviews, transfers,
                   cron_runs, dispatches, claims,
                   durable_queue, queue_files, queue_jobs>>

\* POST /internal/hitl/escalate for a review that exists: queueNotification
\* inserts the row and, not being in test mode, processes the queue at once
EscalateReview(reviewId, sent) ==
    /\ Len(hitl_events) < MaxEvents
    /\ \E r \in Rows(reviews) : r.id = reviewId
    /\ hitl_events' = SendNotifications(
                          Append(hitl_events,
                                 QueuedEvent(reviewId, "ESCALATED")),
                          reviews, hitl_time, sent)
    /\ UNCHANGED <<deal, proof_spec, identities, env, normalized, deciding,
                   hitl_time, other_deals, clock, escrow_events, schedules,
                   payouts, refunds, reviews, transfers,
                   cron_runs, dispatches, claims,
                   durable_queue, queue_files, queue_jobs>>

\* the notification step of the scheduled handler, at a moment when no
\* schedule row is due and the deal's duration has not elapsed
ProcessNotifications(sent) ==
    /\ env.HITL_ENABLED
    /\ DueSchedules(deal, schedules, now) = {}
    /\ hitl_events' = SendNotifications(hitl_events, reviews, hitl_time, sent)
    /\ UNCHANGED <<deal, proof_spec, identities, env, normalized, deciding,
                   hitl_time, other_deals, clock, escrow_events, schedules,
                   payouts, refunds, reviews, transfers,
                   cron_runs, dispatches, claims,
                   durable_queue, queue_files, queue_jobs>>

\* a deal posted at instant 0 whose first result (score 85) has been
\* processed: the first schedule row is completed, review 1 is open and its
\* NOTIFIED row has had its first attempt, delivered or not
NotificationInit ==
    /\ deal = [InitDeal(120) EXCEPT !.creator_id = "cre",
                                    !.status = "Verifying",
                                    !.posted_at = 0,
                                    !.post_url = "url",
                                    !.verification_score = 85,
                                    !.orchestrator_result = 85,
                                    !.last_verification_at = 0]
    /\ proof_spec = [duration_hours |-> 24]
    /\ identities \in [Users -> [solana_wallet_address : {TRUE},
                                 stripe_connect_account_id : {FALSE}]]
    /\ env \in [HITL_ENABLED : {TRUE}, ORCHESTRATOR_ENABLED : {TRUE}]
    /\ clock = 1
    /\ escrow_events = SetToBag({[event_type |-> "Created",
                                  payment_method |-> "solana"]})
    /\ schedules = [ScheduleLadder(0, 120) EXCEPT ![1].status = "completed"]
    /\ payouts = EmptyBag
    /\ refunds = EmptyBag
    /\ reviews = InsertReview(EmptyBag,
                              ServiceReview("MANUAL_REVIEW_NEEDED", "medium"))
    /\ transfers = [payout |-> 0, refund |-> 0]
    /\ normalized = {}
    /\ deciding = {}
    /\ other_deals = NoOtherDeals
    /\ \E ok \in BOOLEAN :
          hitl_events = <<[QueuedEvent(1, "NOTIFIED") EXCEPT
                              !.delivered = ok, !.attempts = 1,
                              !.last_attempt_at = 0]>>
    /\ hitl_time = 0
    /\ cron_runs = NoRuns
    /\ dispatches = EmptyBag
    /\ claims = {}
    /\ durable_queue = FreshQueue
    /\ queue_files = NoFiles
    /\ queue_jobs = NoJobs

NotificationNext ==
    \/ \E dt \in Elapses : Elapse(dt)
    \/ \E id \in ReviewIds :
          \E sent \in [1..(Len(hitl_events) + 1) -> BOOLEAN] :
              EscalateReview(id, sent)
    \/ \E sent \in [DOMAIN hitl_events -> BOOLEAN] : ProcessNotifications(sent)

NotificationSpec == NotificationInit /\ [][NotificationNext]_vars

\* exponential backoff: the delay required before the retry that follows
\* the a-th attempt doubles with each attempt, from the initial delay
BackoffDelay(a) == RetryInitialSeconds * 2 ^ (a - 1)

\* C29: a notification is attempted at most a fixed number of times, and
\* the delay before each successive retry grows (exponential backoff): the
\* retry after the a-th attempt comes more than BackoffDelay(a) after it.
C29_BoundedRetriesWithBackoff ==
    [][\A i \in DOMAIN hitl_events :
          hitl_events'[i].attempts > hitl_events[i].attempts
              => /\ hitl_events[i].attempts < RetryLimit
                 /\ hitl_events[i].attempts >= 1
                      => hitl_time - hitl_events[i].last_attempt_at
                            > BackoffDelay(hitl_events[i].attempts)]_vars

\* ---------------------------------------------------------------------
\* Results and the schedule rows of their dispatches
\* ---------------------------------------------------------------------

\* schedule row i has been dispatched and its result is outstanding: the
\* cron marked it running, or it is the initial row, which submit-post
\* dispatches itself and leaves pending
DispatchedRow(i) ==
    \/ schedules[i].status = "running"
    \/ /\ schedules[i].check_type = "initial"
       /\ schedules[i].status = "pending"
       /\ env.ORCHESTRATOR_ENABLED

\* C30: every processed result, whatever the decision, marks completed the
\* schedule row of the dispatch that produced it, and changes no other row
\* of the deal.
C30_ResultCompletesItsRow ==
    [][\A p \in Payloads :
          CallbackStep(p)
              => \E i \in DOMAIN schedules :
                    /\ DispatchedRow(i)
                    /\ schedules' = [schedules EXCEPT
                                        ![i].status = "completed"]]_vars

\* ---------------------------------------------------------------------
\* Settlement in one direction, once
\* ---------------------------------------------------------------------

\* C31: no deal has both a non-failed Payout row and a non-failed Refund
\* row, whatever the interleaving of callbacks, sweeps, manual endpoints and
\* refund requests: the escrow is settled in at most one direction.
C31_SettledInOneDirection ==
    ~(/\ CountWhere(payouts, NonFailed) > 0
      /\ CountWhere(refunds, NonFailed) > 0)

\* C32: funds are transferred to the creator at most once per deal,
\* counting the transfers the payment backend accepted: the manual
\* trigger-payout endpoint, which deletes the deal's Payout rows before it
\* runs the payout again, sends no transfer for a deal already paid.
C32_NoSecondTransferByTrigger ==
    [][(/\ transfers.payout >= 1
        /\ \E ok \in BOOLEAN : TriggerPayout(ok))
            => transfers'.payout = transfers.payout]_vars

\* ---------------------------------------------------------------------
\* Progress of a Verifying deal under recurring cron ticks
\* ---------------------------------------------------------------------

\* the cron trigger keeps firing and time keeps passing; the post is
\* submitted at the first instant, so that its duration ends within the
\* instants followed; a result may or may not come back, and results are
\* followed until one opens a review
ProgressNext ==
    \/ Tick
    \/ clock = 1 /\ \E u \in Users : PostSubmission(u)
    \/ Scheduled
    \/ /\ reviews = EmptyBag
       /\ \E p \in SchedulerPayloads : \E ok \in BackendOutcomes(p) :
             Callback(p, ok)

ProgressSpec ==
    /\ SchedulerInit
    /\ [][ProgressNext]_vars
    /\ WF_vars(Tick)
    /\ WF_vars(Scheduled)

\* C33: a deal that enters Verifying eventually reaches Completed, Failed or
\* Cancelled as long as cron ticks keep occurring, also when no result ever
\* comes back for it.
C33_VerifyingEventuallyTerminal ==
    (deal.status = "Verifying") ~> (deal.status \in Terminal)

\* ---------------------------------------------------------------------
\* Overlapping cron runs: scheduled() query by query
\* ---------------------------------------------------------------------

\* dispatches followed
MaxDispatches == 3

\* run k starts: the due-schedule query, its rows kept by the run
RunSelect(k) ==
    /\ cron_runs[k].pc = "idle"
    /\ cron_runs' = [cron_runs EXCEPT
                        ![k] = [pc |-> "loop",
                                due |-> DueSchedules(deal, schedules, now),
                                cur |-> 0, t |-> now, ok |-> FALSE]]
    /\ UNCHANGED <<deal, proof_spec, identities, env, normalized, deciding,
                   hitl_events, hitl_time, other_deals, clock, escrow_events,
                   schedules, payouts, refunds, reviews, transfers,
                   dispatches, claims,
                   durable_queue, queue_files, queue_jobs>>

\* run k takes the next row i of its list: past the deadline the row is
\* written expired, otherwise it is written running, by id alone
RunMark(k, i) ==
    /\ cron_runs[k].pc = "loop"
    /\ i \in cron_runs[k].due
    /\ IF cron_runs[k].t > deal.deadline_iso
       THEN /\ schedules' = [schedules EXCEPT ![i].status = "expired"]
            /\ cron_runs' = [cron_runs EXCEPT ![k].due = @ \ {i}]
       ELSE /\ schedules' = [schedules EXCEPT ![i].status = "running"]
            /\ cron_runs' = [cron_runs EXCEPT ![k].pc = "marked",
                                              ![k].cur = i]
    /\ UNCHANGED <<deal, proof_spec, identities, env, normalized, deciding,
                   hitl_events, hitl_time, other_deals, clock, escrow_events,
                   payouts, refunds, reviews, transfers, dispatches, claims,
                   durable_queue, queue_files, queue_jobs>>

\* run k calls triggerOrchestratorVerification for its current row: the
\* analysis service takes the request (ok) or the call fails
RunDispatch(k, ok) ==
    /\ cron_runs[k].pc = "marked"
    /\ BagCount(dispatches) < MaxDispatches
    /\ dispatches' = IF ok THEN Insert(dispatches, cron_runs[k].cur)
                     ELSE dispatches
    /\ cron_runs' = [cron_runs EXCEPT ![k].pc = "called", ![k].ok = ok]
    /\ UNCHANGED <<deal, proof_spec, identities, env, normalized, deciding,
                   hitl_events, hitl_time, other_deals, clock, escrow_events,
                   schedules, payouts, refunds, reviews, transfers, claims,
                   durable_queue, queue_files, queue_jobs>>

\* run k writes the outcome of the call on its current row, by id alone:
\* running after a success, failed after a failure
RunRecord(k) ==
    /\ cron_runs[k].pc = "called"
    /\ schedules' = [schedules EXCEPT
                        ![cron_runs[k].cur].status =
                            IF cron_runs[k].ok THEN "running" ELSE "failed"]
    /\ cron_runs' = [cron_runs EXCEPT ![k].pc = "loop",
                                      ![k].due = @ \ {cron_runs[k].cur},
                                      ![k].cur = 0]
    /\ UNCHANGED <<deal, proof_spec, identities, env, normalized, deciding,
                   hitl_events, hitl_time, other_deals, clock, escrow_events,
                   payouts, refunds, reviews, transfers, dispatches, claims,
                   durable_queue, queue_files, queue_jobs>>

\* run k, its list exhausted, ends with processVerificationCompletion
RunFinish(k, backendOk) ==
    LET r == ProcessVerificationCompletion(deal, proof_spec, schedules,
                                           payouts, refunds, transfers,
                                           escrow_events, cron_runs[k].t,
                                           backendOk)
    IN  /\ cron_runs[k].pc = "loop"
        /\ cron_runs[k].due = {}
        /\ Within(r.payouts, r.refunds, reviews, r.transfers)
        /\ deal' = r.deal
        /\ schedules' = r.schedules
        /\ payouts' = r.payouts
        /\ refunds' = r.refunds
        /\ transfers' = r.transfers
        /\ escrow_events' = r.escrow_events
        /\ other_deals' = SweepOthers(other_deals)
        /\ cron_runs' = [cron_runs EXCEPT ![k] = IdleRun]
        /\ UNCHANGED <<proof_spec, identities, env, normalized, deciding,
                       hitl_events, hitl_time, clock, reviews, dispatches, claims,
                   durable_queue, queue_files, queue_jobs>>

\* a deal of duration 24h and deadline 2h, accepted and funded, waiting for
\* the post
RaceInit ==
    /\ \E dl \in Deadlines :
          deal = [InitDeal(dl) EXCEPT !.creator_id = "cre",
                                      !.status = "PendingVerification"]
    /\ proof_spec = [duration_hours |-> 24]
    /\ identities \in [Users -> [solana_wallet_address : {TRUE},
                                 stripe_connect_account_id : {FALSE}]]
    /\ env \in [HITL_ENABLED : {TRUE}, ORCHESTRATOR_ENABLED : {TRUE}]
    /\ clock = 1
    /\ escrow_events = SetToBag({[event_type |-> "Created",
                                  payment_method |-> "solana"]})
    /\ schedules = <<>>
    /\ payouts = EmptyBag
    /\ refunds = EmptyBag
    /\ reviews = EmptyBag
    /\ transfers = [payout |-> 0, refund |-> 0]
    /\ normalized = {}
    /\ deciding = {}
    /\ other_deals = NoOtherDeals
    /\ hitl_events = <<>>
    /\ hitl_time = 0
    /\ cron_runs = NoRuns
    /\ dispatches = EmptyBag
    /\ claims = {}
    /\ durable_queue = FreshQueue
    /\ queue_files = NoFiles
    /\ queue_jobs = NoJobs

RaceNext ==
    \/ Tick
    \/ \E u \in Users : SubmitPost(u)
    \/ \E p \in SchedulerPayloads : \E ok \in BackendOutcomes(p) : Callback(p, ok)
    \/ \E k \in RunIds : RunSelect(k)
    \/ \E k \in RunIds : \E i \in DOMAIN schedules : RunMark(k, i)
    \/ \E k \in RunIds : \E ok \in BOOLEAN : RunDispatch(k, ok)
    \/ \E k \in RunIds : RunRecord(k)
    \/ \E k \in RunIds : \E ok \in BOOLEAN : RunFinish(k, ok)

RaceSpec == RaceInit /\ [][RaceNext]_vars

\* C34: two cron runs that overlap never dispatch the same schedule row
\* twice: of two runs that both selected a pending row, at most one sends it
\* to the analysis service.
C34_RowDispatchedOnce ==
    \A i \in BagToSet(dispatches) : CopiesIn(i, dispatches) <= 1

\* C35: a schedule row's status never moves backwards: once a callback has
\* marked a row completed, no write of a cron run (running before or after
\* the dispatch, failed on a dispatch error) overwrites the completion.
C35_CompletedRowStaysCompleted ==
    [][\A i \in DOMAIN schedules :
          schedules[i].status = "completed"
              => schedules'[i].status = "completed"]_vars

\* ---------------------------------------------------------------------
\* The escrow ledger and the funding of the deal
\* ---------------------------------------------------------------------

\* number of Created rows of an escrow_events table
CreatedEvents(ev) == CountWhere(ev, LAMBDA r : r.event_type = "Created")

\* C36: a Created escrow event is written for a funding attempt only if the
\* attempt moved the deal to PendingVerification: an attempt whose
\* status-guarded deal update matches no row leaves no event behind, so the
\* Created events of a deal are as many as its funding transitions.
C36_CreatedOnlyWithTransition ==
    [][CreatedEvents(escrow_events') > CreatedEvents(escrow_events)
          => /\ deal.status \in {"PendingFunding", "Failed"}
             /\ deal'.status = "PendingVerification"]_vars

\* ---------------------------------------------------------------------
\* Settlement of a deal funded again after a failure
\* ---------------------------------------------------------------------

\* results of the runs followed: a failing and a passing one
ReFundPayloads ==
    {p \in NewPayloads : /\ p.status = "completed"
                         /\ p.overall_score \in {0, 85}
                         /\ p.overall_confidence = 90
                         /\ p.requirements_failed = 0}

\* Created events followed
MaxCreated == 2

\* a deal of duration 24h funded through POST /:id/fund, waiting for the
\* post; both parties have a wallet, the creator may have a Stripe account
ReFundInit ==
    /\ \E dl \in Deadlines :
          deal = [InitDeal(dl) EXCEPT !.creator_id = "cre",
                                      !.status = "PendingVerification"]
    /\ proof_spec = [duration_hours |-> 24]
    /\ \E acct \in BOOLEAN :
          identities = [u \in Users |->
                           [solana_wallet_address |-> TRUE,
                            stripe_connect_account_id |->
                                (u = "cre" /\ acct)]]
    /\ env \in [HITL_ENABLED : {FALSE}, ORCHESTRATOR_ENABLED : {TRUE}]
    /\ clock = 1
    /\ escrow_events = SetToBag({[event_type |-> "Created",
                                  payment_method |-> "solana"]})
    /\ schedules = <<>>
    /\ payouts = EmptyBag
    /\ refunds = EmptyBag
    /\ reviews = EmptyBag
    /\ transfers = [payout |-> 0, refund |-> 0]
    /\ normalized = {}
    /\ deciding = {}
    /\ other_deals = NoOtherDeals
    /\ hitl_events = <<>>
    /\ hitl_time = 0
    /\ cron_runs = NoRuns
    /\ dispatches = EmptyBag
    /\ claims = {}
    /\ durable_queue = FreshQueue
    /\ queue_files = NoFiles
    /\ queue_jobs = NoJobs

ReFundNext ==
    \/ Tick
    \/ /\ CountWhere(escrow_events, LAMBDA r : r.event_type = "Created")
             < MaxCreated
       /\ \E u \in Users : FundRequest(u)
    \/ /\ Len(schedules) < 2 * MaxSchedules
       /\ \E u \in Users : PostSubmission(u)
    \/ \E p \in ReFundPayloads : \E ok \in BackendOutcomes(p) : Callback(p, ok)
    \/ Scheduled

ReFundSpec == ReFundInit /\ [][ReFundNext]_vars

\* the payment methods of the deal's fundings
FundingMethods ==
    {PaymentMethodOf({r}) :
        r \in {e \in Rows(escrow_events) : e.event_type = "Created"}}

\* the rows a step adds to the payouts and to the refunds table
AddedPayouts ==
    {r \in Rows(payouts') : CopiesIn(r, payouts') > CopiesIn(r, payouts)}

AddedRefunds ==
    {r \in Rows(refunds') : CopiesIn(r, refunds') > CopiesIn(r, refunds)}

\* the payment method a Payout row was executed through
MethodOfPayout(r) == IF r.method = "Solana" THEN "solana" ELSE "stripe"

\* C37: a payout or refund is executed through the payment method of the
\* deal's current funding, also for a deal funded again after Failed, which
\* has more than one Created event: when every funding of the deal used one
\* method, each Payout or Refund row a step adds is of that method.
C37_SettledThroughFundingMethod ==
    [][\A m \in {"solana", "stripe"} :
          FundingMethods = {m}
              => /\ \A r \in AddedPayouts : MethodOfPayout(r) = m
                 /\ \A r \in AddedRefunds : r.via = m]_vars

\* ---------------------------------------------------------------------
\* A passing result and the review table
\* ---------------------------------------------------------------------

\* C38: a completed result with overall score at least 80 and no failed
\* requirement only records the success: it creates no Review row.
C38_PassingResultOpensNoReview ==
    [][\A p \in Payloads :
          (/\ Normalize(p).verificationStatus = "completed"
           /\ Normalize(p).overallScore >= 80
           /\ p.requirements_failed = 0
           /\ CallbackStep(p))
              => reviews' = reviews]_vars

\* ---------------------------------------------------------------------
\* Claiming a review (POST /v1/reviews/:id/claim)
\* ---------------------------------------------------------------------

\* the reviewers
Reviewers == {"rev1", "rev2"}

\* the endpoint up to its update, for a reviewer: the review is read and
\* must be Open
ClaimRequest(id, user) ==
    /\ \A c \in claims : ~(c.review = id /\ c.reviewer = user)
    /\ \E r \in Rows(reviews) : r.id = id /\ r.status = "Open"
    /\ claims' = claims \cup {[review |-> id, reviewer |-> user,
                               pc |-> "checked"]}
    /\ UNCHANGED <<deal, proof_spec, identities, env, normalized, deciding,
                   hitl_events, hitl_time, other_deals, clock, escrow_events,
                   schedules, payouts, refunds, reviews, transfers,
                   cron_runs, dispatches,
                   durable_queue, queue_files, queue_jobs>>

\* the update of the endpoint, by id alone, and its answer: success
ClaimWrite(c) ==
    /\ c \in claims
    /\ c.pc = "checked"
    /\ LET r == ReviewById(reviews, c.review)
       IN  reviews' = Insert(reviews (-) SetToBag({r}),
                             [r EXCEPT !.reviewer_id = c.reviewer,
                                       !.status = "InProgress"])
    /\ claims' = (claims \ {c}) \cup {[c EXCEPT !.pc = "done"]}
    /\ UNCHANGED <<deal, proof_spec, identities, env, normalized, deciding,
                   hitl_events, hitl_time, other_deals, clock, escrow_events,
                   schedules, payouts, refunds, transfers, cron_runs,
                   dispatches,
                   durable_queue, queue_files, queue_jobs>>

ClaimRequests == [review : ReviewIds, reviewer : Reviewers, pc : {"checked"}]

ClaimNext ==
    \/ Tick
    \/ \E u \in Users : PostSubmission(u)
    \/ \E p \in SchedulerPayloads : \E ok \in BackendOutcomes(p) : Callback(p, ok)
    \/ \E id \in ReviewIds, u \in Reviewers : ClaimRequest(id, u)
    \/ \E c \in ClaimRequests : ClaimWrite(c)

ClaimSpec == SchedulerInit /\ [][ClaimNext]_vars

\* C39: a review is claimed by at most one reviewer: of two concurrent
\* claims of the same Open review at most one is answered with success, and
\* once no claim of the review is in flight its reviewer_id is the reviewer
\* whose claim was answered with success.
C39_OneSuccessfulClaim ==
    \A c \in claims :
        c.pc = "done"
            => /\ \A d \in claims :
                     (d.pc = "done" /\ d.review = c.review) => d = c
               /\ (\A d \in claims : d.review = c.review => d.pc = "done")
                     => ReviewById(reviews, c.review).reviewer_id = c.reviewer

\* ---------------------------------------------------------------------
\* The analysis server's durable queue (api-server.js, DurableQueue)
\* ---------------------------------------------------------------------

\* jobs accepted
MaxJobs == 5

\* POST /analyze with a callback URL: enqueue pushes the job and saves the
\* queue file, and the request is answered "processing"
Enqueue ==
    /\ queue_jobs.accepted < MaxJobs
    /\ LET job == queue_jobs.accepted + 1
           jobs == Append(durable_queue.jobs, job)
       IN  /\ durable_queue' = [durable_queue EXCEPT !.jobs = jobs]
           /\ queue_files' = [queue_files EXCEPT !.jobs = jobs]
           /\ queue_jobs' = [queue_jobs EXCEPT !.accepted = job]
    /\ UNCHANGED <<deal, proof_spec, identities, env, normalized, deciding,
                   hitl_events, hitl_time, other_deals, clock, escrow_events,
                   schedules, payouts, refunds, reviews, transfers,
                   cron_runs, dispatches, claims>>

\* processNext, first part: processing is set and dequeue shifts the first
\* job and saves the queue file
ProcessNextDequeue ==
    /\ durable_queue.pc = "idle"
    /\ ~durable_queue.processing
    /\ durable_queue.jobs # <<>>
    /\ durable_queue' = [jobs |-> Tail(durable_queue.jobs),
                         processing |-> TRUE,
                         cur |-> Head(durable_queue.jobs),
                         pc |-> "dequeued"]
    /\ queue_files' = [queue_files EXCEPT !.jobs = Tail(durable_queue.jobs)]
    /\ UNCHANGED <<deal, proof_spec, identities, env, normalized, deciding,
                   hitl_events, hitl_time, other_deals, clock, escrow_events,
                   schedules, payouts, refunds, reviews, transfers,
                   cron_runs, dispatches, claims, queue_jobs>>

\* processNext, second part: the job in hand is written to processing.json
ProcessNextMark ==
    /\ durable_queue.pc = "dequeued"
    /\ durable_queue' = [durable_queue EXCEPT !.pc = "analyzing"]
    /\ queue_files' = [queue_files EXCEPT !.processing = {durable_queue.cur}]
    /\ UNCHANGED <<deal, proof_spec, identities, env, normalized, deciding,
                   hitl_events, hitl_time, other_deals, clock, escrow_events,
                   schedules, payouts, refunds, reviews, transfers,
                   cron_runs, dispatches, claims, queue_jobs>>

\* processNext, last part: the analysis has run and the callback (result or
\* error) is sent; processing.json is removed and processing is cleared
ProcessNextFinish ==
    /\ durable_queue.pc = "analyzing"
    /\ durable_queue' = [durable_queue EXCEPT !.pc = "idle", !.cur = 0,
                                              !.processing = FALSE]
    /\ queue_files' = [queue_files EXCEPT !.processing = {}]
    /\ queue_jobs' = [queue_jobs EXCEPT
                         !.ended = @ \cup {durable_queue.cur}]
    /\ UNCHANGED <<deal, proof_spec, identities, env, normalized, deciding,
                   hitl_events, hitl_time, other_deals, clock, escrow_events,
                   schedules, payouts, refunds, reviews, transfers,
                   cron_runs, dispatches, claims>>

\* the process dies and is started again: the constructor's loadQueue reads
\* jobs.json, puts the job of processing.json back at the front of the jobs
\* in memory and removes processing.json
CrashRestart ==
    /\ durable_queue' =
          [jobs |-> IF queue_files.processing = {} THEN queue_files.jobs
                    ELSE <<TheRow(queue_files.processing)>>
                         \o queue_files.jobs,
           processing |-> FALSE, cur |-> 0, pc |-> "idle"]
    /\ queue_files' = [queue_files EXCEPT !.processing = {}]
    /\ UNCHANGED <<deal, proof_spec, identities, env, normalized, deciding,
                   hitl_events, hitl_time, other_deals, clock, escrow_events,
                   schedules, payouts, refunds, reviews, transfers,
                   cron_runs, dispatches, claims, queue_jobs>>

QueueNext ==
    \/ Enqueue
    \/ ProcessNextDequeue
    \/ ProcessNextMark
    \/ ProcessNextFinish
    \/ CrashRestart

QueueSpec == Init /\ [][QueueNext]_vars

\* the jobs of a sequence of jobs
JobsIn(q) == {q[i] : i \in DOMAIN q}

\* C40: a job accepted by the durable queue is never lost by a crash: at
\* every instant between its enqueue and the end of its processing the job
\* is on disk, in the queue file or in the processing file.
C40_AcceptedJobOnDisk ==
    \A job \in 1..queue_jobs.accepted :
        job \notin queue_jobs.ended
            => job \in JobsIn(queue_files.jobs) \cup queue_files.processing

====
